---- MODULE Spec2Model ----
(***************************************************************************)
(* RenderX video-renderer backend.                                         *)
(*                                                                         *)
(* Two OS processes are modelled:                                          *)
(*   - the FastAPI event loop of main.py (the HTTP handlers and the        *)
(*     process_in_background coroutines), whose handlers hold no await     *)
(*     between reading and writing the job table and are therefore one     *)
(*     atomic action each;                                                 *)
(*   - the single worker process of the ProcessPoolExecutor, which runs    *)
(*     process_video_task / VideoProcessor.process_video step by step and  *)
(*     shares only the file system with the event loop.                    *)
(***************************************************************************)
EXTENDS Integers, Sequences, FiniteSets, TLC

(* ------------------------------ bounds --------------------------------- *)
\* job ids the service hands out (uuid4 values, never reused)
MaxJobs == 2
\* POST /process requests that are accepted in one behaviour
MaxRequests == 2
\* frames of the longest uploaded video
MaxFrames == 3
\* host parallelism values tried for cpu_count()
MaxCores == 2

(* -------------------------- program constants -------------------------- *)
\* ProcessPoolExecutor(max_workers=1)
max_workers == 1
\* VideoProcessor.__init__(video_path, segment_duration=10)
segment_duration == 10
\* MAX_FILE_SIZE in MiB
MAX_FILE_SIZE == 100

ALLOWED_EXTENSIONS == {".mp4"}

valid_filters ==
    {"grayscale", "blur", "sepia", "brightness", "contrast",
     "saturation", "warm_tone", "cool_tone", "edge_detection"}

FILTERS ==
    {"grayscale", "blur", "sepia", "brightness", "contrast",
     "saturation", "warm_tone", "cool_tone", "edge_detection"}

(* ------------------------------ inputs --------------------------------- *)
JobIds == 1..MaxJobs
\* a job id no upload ever produced
UnknownJob == MaxJobs + 1
RequestJobIds == JobIds \cup {UnknownJob}
\* filter names a client sends: two of the catalog and one outside it
RequestFilters == {"grayscale", "blur", "vignette"}
\* measured wall-clock durations of process_parallel, in milliseconds
ParTimes == {0, 4, 1200}
\* the one the service-level specification tries
ServiceParTimes == {1200}

\* a key that is not in the dict `jobs`, a path at which no file exists
NoJob == [exists |-> FALSE]
NoFile == [exists |-> FALSE]
\* a dict key that is not set / a Python None, and a value that is there
Absent == <<>>
Some(v) == <<v>>
\* the future of a work item that has not returned yet
NoResult == [returned |-> FALSE]

SegIdx == 0..(MaxFrames - 1)

VARIABLES
    host,        \* [cpu_count, avc1, ffmpeg]: what the machine offers
    jobs,        \* main.py `jobs`: job id -> record, or NoJob
    jobs_file,   \* contents of jobs.json
    uploads,     \* uploads/<job_id>_<filename>: job id -> video, or NoFile
    outputs,     \* outputs/<job_id>_processed.mp4: job id -> file, or NoFile
    seg_files,   \* segments/segment_NNN.mp4: index -> file, or NoFile
    par_files,   \* outputs/par_processed_NNN.mp4: index -> file, or NoFile
    audio_file,  \* segments/original_audio.aac: file, or NoFile
    tasks,       \* process_in_background coroutines, in creation order
    queue,       \* work items of `executor` not yet picked up (task numbers)
    issued       \* how many job ids uuid4 has produced so far

vars == <<host, jobs, jobs_file, uploads, outputs, seg_files, par_files,
          audio_file, tasks, queue, issued>>

fileVars == <<uploads, outputs, seg_files, par_files, audio_file>>
transientVars == <<seg_files, par_files, audio_file>>

(* ------------------------------ helpers -------------------------------- *)
Range(s) == {s[i] : i \in 1..Len(s)}

RECURSIVE Concat(_)
Concat(ss) == IF ss = <<>> THEN <<>> ELSE Head(ss) \o Concat(Tail(ss))

Min(a, b) == IF a < b THEN a ELSE b

TaskIds == 1..Len(tasks)
TasksOf(j) == {t \in TaskIds : tasks[t].job_id = j}
\* pcs of a work item that the executor's worker process is executing
RunningPcs == {"extract", "split", "filter", "merge", "remux",
               "estimate", "cleanup"}
Running == {t \in TaskIds : tasks[t].pc \in RunningPcs}

(* ------------------------------ job table ------------------------------ *)
\* the record upload_video stores (main.py 206-213)
NewJob(job_id) ==
    [job_id |-> job_id, status |-> "uploaded", file_path |-> job_id,
     filter_type |-> Absent,
     sequential_time |-> Absent, parallel_time |-> Absent,
     speedup |-> Absent, segments_processed |-> Absent,
     cpu_cores_used |-> Absent, output_filename |-> Absent,
     output_path |-> Absent, error |-> Absent]

\* keys of a job record whose value is never None
RequiredKeys == {"job_id", "status", "file_path"}

\* json.dump of one job record: a JSON object with a member per key; None
\* is written as null (a key that is not set is not written: job.get(key)
\* gives None for both, before and after)
json_dump(job) ==
    [k \in DOMAIN job |->
        IF k \in RequiredKeys THEN [json |-> "value", v |-> job[k]]
        ELSE IF job[k] = Absent THEN [json |-> "null"]
        ELSE [json |-> "value", v |-> job[k][1]]]

\* json.load of one JSON object
json_load(object) ==
    [k \in DOMAIN object |->
        IF k \in RequiredKeys THEN object[k].v
        ELSE IF object[k].json = "null" THEN Absent
        ELSE Some(object[k].v)]

\* faulty variant: only the records of jobs that are not in progress are
\* written
save_jobs_settled_only(table) ==
    [j \in DOMAIN table |->
        IF table[j] = NoJob \/ table[j].status = "processing" THEN NoJob
        ELSE json_dump(table[j])]

\* save_jobs: json.dump(jobs, f) to jobs.json, a member per job id
save_jobs(table) ==
    [j \in DOMAIN table |->
        IF table[j] = NoJob THEN NoJob ELSE json_dump(table[j])]

\* faulty variant: a job that was in progress when the service stopped is
\* loaded as failed
load_jobs_fails_interrupted(file) ==
    [j \in DOMAIN file |->
        IF file[j] = NoJob THEN NoJob
        ELSE IF json_load(file[j]).status = "processing"
        THEN [json_load(file[j]) EXCEPT !.status = "failed"]
        ELSE json_load(file[j])]

\* load_jobs: jobs = json.load(f); without the file jobs stays {}
load_jobs(file) ==
    [j \in DOMAIN file |->
        IF file[j] = NoJob THEN NoJob ELSE json_load(file[j])]

(* ------------------------------- videos -------------------------------- *)
\* A video file as OpenCV and ffprobe see it: `frames` decodable frames,
\* CAP_PROP_FPS = fps10 / 10, an audio stream or not. A file VideoCapture
\* cannot open (any bytes may be uploaded under the name *.mp4) is Corrupt.
\* `audio` is "none", "aac" (ffmpeg copies it into an .aac file) or "mp3"
\* (an audio stream that `-acodec copy` cannot write into an .aac file).
Video(n, f, a) == [frames |-> n, fps10 |-> f, audio |-> a, readable |-> TRUE]
Corrupt == [frames |-> 0, fps10 |-> 0, audio |-> "none", readable |-> FALSE]
AudioKinds == {"none", "aac", "mp3"}

\* frame rates tried: 0 (invalid), 0.1 fps and 0.2 fps, i.e. 0, 1 and 2
\* frames per 10 s segment
FpsChoices == {0, 1, 2}

Videos ==
    {Video(n, f, a) : n \in 0..MaxFrames, f \in FpsChoices, a \in AudioKinds}
        \cup {Corrupt}

\* the uploads the service-level specification tries
UploadVideos == {Corrupt, Video(2, 1, "aac")}

\* frame k of the video uploaded for job j, after filter f ("none": unfiltered)
Frame(j, k, f) == [job |-> j, n |-> k, filter |-> f]

(* ------------------------------ tasks ---------------------------------- *)
\* the coroutine process_in_background(job_id, video_path, filter_type) and
\* the state of the process_video_task call it submits
NewTask(job_id, video_path, filter_type) ==
    [job_id |-> job_id, video_path |-> video_path,
     filter_type |-> filter_type, pc |-> "queued",
     has_audio |-> FALSE, segment_paths |-> <<>>,
     started |-> 0, finished |-> <<>>, worker_raised |-> FALSE,
     par_paths |-> <<>>, par_time |-> 0,
     estimated_seq_time |-> 0, speedup |-> 0,
     result |-> NoResult]

(* ------------------------------- Init ---------------------------------- *)
Hosts == [cpu_count : 1..MaxCores, avc1 : BOOLEAN, ffmpeg : BOOLEAN]

\* the hosts the service-level specification tries: a complete one, and one
\* with a single core, no H.264 encoder in OpenCV and no ffmpeg
ServiceHosts ==
    {[cpu_count |-> 2, avc1 |-> TRUE, ffmpeg |-> TRUE],
     [cpu_count |-> 1, avc1 |-> FALSE, ffmpeg |-> FALSE]}

\* Module import of main.py in an empty working directory: load_jobs finds
\* no jobs.json, the executor is idle, uploads/ and outputs/ are empty.
Init ==
    /\ host \in ServiceHosts
    /\ jobs = [j \in JobIds |-> NoJob]
    /\ jobs_file = [j \in JobIds |-> NoJob]
    /\ uploads = [j \in JobIds |-> NoFile]
    /\ outputs = [j \in JobIds |-> NoFile]
    /\ seg_files = [i \in SegIdx |-> NoFile]
    /\ par_files = [i \in SegIdx |-> NoFile]
    /\ audio_file = NoFile
    /\ tasks = <<>>
    /\ queue = <<>>
    /\ issued = 0

(* --------------------------- HTTP handlers ----------------------------- *)
\* validate_video_file: extension in ALLOWED_EXTENSIONS and size within limit
validate_video_file(ext, size_mb) ==
    ext \in ALLOWED_EXTENSIONS /\ size_mb <= MAX_FILE_SIZE

UploadExts == {".mp4", ".avi"}
UploadSizes == {1, MAX_FILE_SIZE + 1}

\* POST /upload: the status code of the response
upload_response(ext, size_mb) ==
    IF validate_video_file(ext, size_mb) THEN 200 ELSE 400

\* POST /upload. The analytics stored in the record are read-only
\* afterwards and are left out.
upload_video(ext, size_mb, video) ==
    IF upload_response(ext, size_mb) # 200
    THEN UNCHANGED vars
    ELSE /\ issued < MaxJobs
         /\ LET job_id == issued + 1 IN
            /\ issued' = job_id
            /\ uploads' = [uploads EXCEPT ![job_id] = video]
            /\ jobs' = [jobs EXCEPT ![job_id] = NewJob(job_id)]
            /\ jobs_file' = save_jobs(jobs')
         /\ UNCHANGED <<host, outputs, transientVars, tasks, queue>>

\* `job_id not in jobs`
not_in_jobs(job_id) == job_id \notin JobIds \/ jobs[job_id] = NoJob

\* faulty variant: the filter name is not looked up in the catalog
process_response_any_filter(job_id, filter_type) ==
    IF not_in_jobs(job_id) THEN 404 ELSE 200

\* POST /process: the status code of the response (lines 243-256)
process_response(job_id, filter_type) ==
    IF not_in_jobs(job_id) THEN 404
    ELSE IF filter_type \notin valid_filters THEN 400
    ELSE 200

\* POST /process
start_processing(job_id, filter_type) ==
    IF process_response(job_id, filter_type) # 200
    THEN UNCHANGED vars
    ELSE /\ Len(tasks) < MaxRequests
         /\ jobs' = [jobs EXCEPT ![job_id].status = "processing",
                                 ![job_id].filter_type = Some(filter_type)]
         /\ jobs_file' = save_jobs(jobs')
         \* asyncio.create_task(process_in_background(...)): the coroutine's
         \* first step hands process_video_task to the executor; coroutines
         \* start in creation order, so the executor's queue is in that order
         /\ tasks' = Append(tasks,
                NewTask(job_id, jobs[job_id].file_path, filter_type))
         /\ queue' = Append(queue, Len(tasks) + 1)
         /\ UNCHANGED <<host, fileVars, issued>>

\* GET /status/{job_id}: the status code and the JobStatus body
status_response(job_id) ==
    IF not_in_jobs(job_id) THEN [code |-> 404]
    ELSE [code |-> 200,
          job_id |-> job_id,
          status |-> jobs[job_id].status,
          sequential_time |-> jobs[job_id].sequential_time,
          parallel_time |-> jobs[job_id].parallel_time,
          speedup |-> jobs[job_id].speedup,
          segments_processed |-> jobs[job_id].segments_processed,
          cpu_cores_used |-> jobs[job_id].cpu_cores_used,
          output_filename |-> jobs[job_id].output_filename,
          error |-> jobs[job_id].error]

\* GET /status/{job_id} reads and changes nothing
get_status(job_id) ==
    /\ status_response(job_id).code \in {200, 404}
    /\ UNCHANGED vars

\* faulty variant: a completed job's file is served without looking for it
download_response_trusts_record(job_id) ==
    IF not_in_jobs(job_id) THEN 404
    ELSE IF jobs[job_id].status # "completed" THEN 400
    ELSE 200

\* GET /download/{job_id}: the status code of the response
download_response(job_id) ==
    IF not_in_jobs(job_id) THEN 404
    ELSE IF jobs[job_id].status # "completed" THEN 400
    ELSE IF jobs[job_id].output_path = Absent
            \/ outputs[jobs[job_id].output_path[1]] = NoFile THEN 404
    ELSE 200

\* GET /download/{job_id} reads and changes nothing
download_video(job_id) ==
    /\ download_response(job_id) \in {200, 400, 404}
    /\ UNCHANGED vars

\* DELETE /cleanup/{job_id}: the status code of the response
cleanup_response(job_id) == IF not_in_jobs(job_id) THEN 404 ELSE 200

\* DELETE /cleanup/{job_id}
cleanup_job(job_id) ==
    IF cleanup_response(job_id) # 200
    THEN UNCHANGED vars
    ELSE /\ uploads' = [uploads EXCEPT ![jobs[job_id].file_path] = NoFile]
         /\ outputs' = IF jobs[job_id].output_path # Absent
                       THEN [outputs EXCEPT ![jobs[job_id].output_path[1]] = NoFile]
                       ELSE outputs
         /\ jobs' = [jobs EXCEPT ![job_id] = NoJob]
         /\ jobs_file' = save_jobs(jobs')
         /\ UNCHANGED <<host, transientVars, tasks, queue, issued>>

(* ----------------- executor worker: process_video_task ----------------- *)
SetTask(t, rec) == tasks' = [tasks EXCEPT ![t] = rec]

\* process_video's `except Exception as e` (and process_video_task's): the
\* run returns {'success': False, 'error': str(e)}
\* The locals of the call are gone once it has returned.
Return(t, result) ==
    SetTask(t, [NewTask(tasks[t].job_id, tasks[t].video_path,
                        tasks[t].filter_type) EXCEPT
        !.pc = "returned", !.result = result])

Raise(t, msg) ==
    Return(t, [returned |-> TRUE, success |-> FALSE, error |-> msg])

serviceVars == <<host, jobs, jobs_file, issued>>

\* faulty variant: an executor that starts every work item at once
executor_unbounded == TRUE

\* ProcessPoolExecutor(max_workers=1): a worker process takes the next work
\* item only when fewer than max_workers items are being executed
executor_has_idle_worker == Cardinality(Running) < max_workers

\* The worker process takes the oldest work item and enters
\* process_video_task: VideoProcessor(video_path), then process_video's
\* filter check (video_processor.py 581-582).
executor_start ==
    /\ queue # <<>>
    /\ executor_has_idle_worker
    /\ LET t == Head(queue) IN
       /\ queue' = Tail(queue)
       /\ IF tasks[t].filter_type \notin FILTERS
          THEN Raise(t, "Unknown filter")
          ELSE SetTask(t, [tasks[t] EXCEPT !.pc = "extract"])
    /\ UNCHANGED <<serviceVars, fileVars>>

\* faulty variant: the audio track is taken to be extracted whether or not
\* the tools could be launched
extract_audio_assumes_ffmpeg(video) ==
    /\ video # NoFile
    /\ video.audio = "aac"

\* extract_audio(video_path, audio_path): True iff ffprobe reports an audio
\* stream and ffmpeg copies it to segments/original_audio.aac
extract_audio_ok(video) ==
    /\ host.ffmpeg
    /\ video # NoFile
    /\ video.audio = "aac"

\* Step 0 of process_video
extract_audio(t) ==
    /\ tasks[t].pc = "extract"
    /\ LET video == uploads[tasks[t].video_path]
           ok == extract_audio_ok(video) IN
       /\ audio_file' = IF ok THEN [job |-> tasks[t].video_path]
                        ELSE audio_file
       /\ SetTask(t, [tasks[t] EXCEPT !.pc = "split", !.has_audio = ok])
    /\ UNCHANGED <<serviceVars, queue, uploads, outputs, seg_files, par_files>>

\* frames_per_segment = int(fps * self.segment_duration)
frames_per_segment(video) == (video.fps10 * segment_duration) \div 10

\* number of segment files the read loop of split_video has opened once it
\* has read the frames with frame_count 0..n-1: a new one whenever
\* frame_count % frames_per_segment == 0
segments_opened(n, L) == Cardinality({c \in 0..(n - 1) : c % L = 0})

\* the frames of the video at path in reading order
source_frames(path, video) == [k \in 1..video.frames |-> Frame(path, k, "none")]

\* the frames split_video writes to segment c (0-based) of the video at path:
\* out.write(frame) goes to the writer opened last
segment_frames(path, video, c) ==
    LET L == frames_per_segment(video) IN
    SelectSeq(source_frames(path, video),
              LAMBDA frame : segments_opened(frame.n, L) = c + 1)

\* Step 1 of process_video: split_video. The segment writer uses the 'avc1'
\* codec with no fallback: on a host without that encoder the writer does
\* not open and out.write() stores nothing.
split_video(t) ==
    /\ tasks[t].pc = "split"
    /\ LET path == tasks[t].video_path
           video == uploads[path] IN
       IF video = NoFile \/ ~video.readable
       THEN Raise(t, "Could not open video file") /\ UNCHANGED seg_files
       ELSE IF video.fps10 = 0
       THEN Raise(t, "float division by zero") /\ UNCHANGED seg_files
       ELSE IF frames_per_segment(video) = 0
       THEN Raise(t, "division by zero") /\ UNCHANGED seg_files
       ELSE LET n == segments_opened(video.frames, frames_per_segment(video)) IN
            /\ seg_files' = [i \in SegIdx |->
                  IF i < n /\ host.avc1
                  THEN [frames |-> segment_frames(path, video, i)]
                  ELSE seg_files[i]]
            /\ SetTask(t, [tasks[t] EXCEPT
                  !.pc = "filter",
                  !.segment_paths = [i \in 1..n |-> i - 1]])
    /\ UNCHANGED <<serviceVars, queue, uploads, outputs, par_files, audio_file>>

\* get_filter_function(filter_type)(frame): FILTERS.get(name, lambda x: x)
filter_func(filter_type, frame) ==
    IF filter_type \in FILTERS THEN [frame EXCEPT !.filter = filter_type]
    ELSE frame

\* faulty variant: every segment is given the same output path
args_list_one_output(segment_paths) ==
    [i \in 1..Len(segment_paths) |->
        [segment_path |-> segment_paths[i], output_path |-> 0]]

\* args_list of process_parallel (491-496): entry i pairs segment_paths[i]
\* with outputs/par_processed_{i:03d}.mp4 (i counted from 0 in the code)
args_list(segment_paths) ==
    [i \in 1..Len(segment_paths) |->
        [segment_path |-> segment_paths[i], output_path |-> i - 1]]

\* Pool(processes=num_cores): the pool hands out args_list in order, to at
\* most cpu_count() worker processes at a time
worker_start(t) ==
    /\ tasks[t].pc = "filter"
    /\ tasks[t].started < Len(tasks[t].segment_paths)
    /\ tasks[t].started - Len(tasks[t].finished) < host.cpu_count
    /\ SetTask(t, [tasks[t] EXCEPT !.started = @ + 1])
    /\ UNCHANGED <<serviceVars, queue, fileVars>>

\* apply_filter_to_segment((segment_path, filter_type, output_path, i+1))
\* returns: the i-th entry of args_list (1-based here) is done. A segment
\* file VideoCapture cannot open gives width = height = 0, a writer that
\* does not open, no frame read: nothing is written and output_path is
\* returned all the same.
worker_finish(t, i) ==
    /\ tasks[t].pc = "filter"
    /\ i \in 1..tasks[t].started
    /\ i \notin Range(tasks[t].finished)
    /\ LET args == args_list(tasks[t].segment_paths)[i]
           seg == seg_files[args.segment_path] IN
       par_files' =
          IF seg = NoFile THEN par_files
          ELSE [par_files EXCEPT ![args.output_path] =
                  [frames |-> [k \in 1..Len(seg.frames) |->
                                 filter_func(tasks[t].filter_type, seg.frames[k])]]]
    /\ SetTask(t, [tasks[t] EXCEPT !.finished = Append(@, i)])
    /\ UNCHANGED <<serviceVars, queue, uploads, outputs, seg_files, audio_file>>

\* apply_filter_to_segment raises (cv2.error, MemoryError, OSError while
\* decoding, filtering or encoding): `raise e` at line 252; the writer was
\* created, so the output file exists and holds no complete frame sequence
worker_raise(t, i) ==
    /\ tasks[t].pc = "filter"
    /\ i \in 1..tasks[t].started
    /\ i \notin Range(tasks[t].finished)
    /\ LET args == args_list(tasks[t].segment_paths)[i] IN
       /\ seg_files[args.segment_path] # NoFile
       /\ par_files' = [par_files EXCEPT ![args.output_path] = [frames |-> <<>>]]
    /\ SetTask(t, [tasks[t] EXCEPT !.finished = Append(@, i),
                                   !.worker_raised = TRUE])
    /\ UNCHANGED <<serviceVars, queue, uploads, outputs, seg_files, audio_file>>

\* faulty variant: results collected in completion order (imap_unordered)
pool_map_unordered(finished, n) == [i \in 1..n |-> finished[i] - 1]

\* what pool.map(apply_filter_to_segment, args_list) returns: the output
\* path of args_list[i] at position i, whatever order the workers finished in
pool_map(finished, n) == [i \in 1..n |-> i - 1]

\* faulty variant: the call returns as soon as one entry is done
pool_map_first_done(finished, n) == Len(finished) >= Min(1, n)

\* pool.map blocks until every entry of args_list is done
pool_map_done(finished, n) == Len(finished) = n

\* Step 2 of process_video: pool.map returns once every entry is done, and
\* re-raises a worker's exception
process_parallel_return(t, elapsed) ==
    /\ tasks[t].pc = "filter"
    /\ pool_map_done(tasks[t].finished, Len(tasks[t].segment_paths))
    /\ IF tasks[t].worker_raised
       THEN Raise(t, "worker failed")
       ELSE SetTask(t, [tasks[t] EXCEPT
               !.pc = "merge",
               !.par_paths = pool_map(tasks[t].finished,
                                      Len(tasks[t].segment_paths)),
               !.par_time = elapsed])
    /\ UNCHANGED <<serviceVars, queue, fileVars>>

\* the frames merge_segments reads from one processed segment
read_frames(file) == IF file = NoFile THEN <<>> ELSE file.frames

\* the frames merge_segments appends to the output, in list order
merged_frames(paths) ==
    Concat([i \in 1..Len(paths) |-> read_frames(par_files[paths[i]])])

\* Step 3 of process_video: merge_segments(par_paths, output_path). The
\* output geometry is read from the first segment; if that one cannot be
\* opened the writer gets size (0, 0), does not open and nothing is written.
merge_segments(t) ==
    /\ tasks[t].pc = "merge"
    /\ LET paths == tasks[t].par_paths
           out == tasks[t].job_id IN
       IF paths = <<>>
       THEN Raise(t, "No segments to merge") /\ UNCHANGED outputs
       ELSE /\ outputs' =
                 IF par_files[paths[1]] = NoFile THEN outputs
                 ELSE [outputs EXCEPT ![out] =
                         [frames |-> merged_frames(paths), audio |-> Absent]]
            /\ SetTask(t, [tasks[t] EXCEPT !.pc = "remux"])
    /\ UNCHANGED <<serviceVars, queue, uploads, transientVars>>

\* merge_segments raises after the output writer was opened (line 530) and
\* k of the segments were appended: the partly written output stays
merge_raise(t, k) ==
    /\ tasks[t].pc = "merge"
    /\ LET paths == tasks[t].par_paths
           out == tasks[t].job_id IN
       /\ paths # <<>>
       /\ par_files[paths[1]] # NoFile
       /\ k \in 0..(Len(paths) - 1)
       /\ outputs' = [outputs EXCEPT ![out] =
                         [frames |-> merged_frames(SubSeq(paths, 1, k)),
                          audio |-> Absent]]
       /\ Raise(t, "merge failed")
    /\ UNCHANGED <<serviceVars, queue, uploads, transientVars>>

\* merge_audio_with_video(video_path, audio_path, output_path): ffmpeg muxes
\* into a temp file that replaces output_path. Without ffmpeg on the host
\* (FileNotFoundError), or when it exits non-zero because the video input is
\* missing, False is returned and output_path is as it was.
merge_audio_with_video(video, audio) ==
    IF video = NoFile \/ ~host.ffmpeg THEN video
    ELSE [video EXCEPT !.audio = Some(audio.job)]

\* Step 4 of process_video
remux(t) ==
    /\ tasks[t].pc = "remux"
    /\ LET out == tasks[t].job_id IN
       outputs' =
          IF tasks[t].has_audio /\ audio_file # NoFile
          THEN [outputs EXCEPT ![out] =
                  merge_audio_with_video(outputs[out], audio_file)]
          ELSE outputs
    /\ SetTask(t, [tasks[t] EXCEPT !.pc = "estimate"])
    /\ UNCHANGED <<serviceVars, queue, uploads, transientVars>>

\* Step 4 when ffmpeg exits non-zero on inputs that are there (lines
\* 192-197): the temp file is removed, merge_audio_with_video returns False,
\* process_video ignores the return value and goes on
remux_fails(t) ==
    /\ tasks[t].pc = "remux"
    /\ tasks[t].has_audio
    /\ audio_file # NoFile
    /\ outputs[tasks[t].job_id] # NoFile
    /\ SetTask(t, [tasks[t] EXCEPT !.pc = "estimate"])
    /\ UNCHANGED <<serviceVars, queue, fileVars>>

\* faulty variant: the estimate scaled by the core count alone
estimated_seq_time_by_cores(par_time, num_cores, n_segments) ==
    par_time * num_cores

\* Steps 5 and 6 of process_video, in milliseconds and thousandths:
\* estimated_seq_time = par_time * min(num_cores, len(segment_paths)),
\* speedup = estimated_seq_time / par_time if par_time > 0 else 1.0
estimated_seq_time(par_time, num_cores, n_segments) ==
    par_time * Min(num_cores, n_segments)

speedup(est, par_time) ==
    IF par_time > 0 THEN (est * 1000) \div par_time ELSE 1000

estimate(t) ==
    /\ tasks[t].pc = "estimate"
    /\ LET est == estimated_seq_time(tasks[t].par_time, host.cpu_count,
                                     Len(tasks[t].segment_paths)) IN
       SetTask(t, [tasks[t] EXCEPT
           !.pc = "cleanup",
           !.estimated_seq_time = est,
           !.speedup = speedup(est, tasks[t].par_time)])
    /\ UNCHANGED <<serviceVars, queue, fileVars>>

\* round(x, 2) of a value given in thousandths, in hundredths
round2(x) == (x + 5) \div 10

\* the dictionary process_video returns on success (614-623)
success_result(t) ==
    [returned |-> TRUE, success |-> TRUE,
     output_path |-> tasks[t].job_id,
     sequential_time |-> round2(tasks[t].estimated_seq_time),
     parallel_time |-> round2(tasks[t].par_time),
     speedup |-> round2(tasks[t].speedup),
     segments_processed |-> Len(tasks[t].segment_paths),
     cpu_cores_used |-> host.cpu_count,
     audio_preserved |-> tasks[t].has_audio]

\* Step 7 of process_video: cleanup_segments (rmtree of segments/, removal
\* of outputs/seq_* and outputs/par_*), then the return of the result
cleanup_segments(t) ==
    /\ tasks[t].pc = "cleanup"
    /\ seg_files' = [i \in SegIdx |-> NoFile]
    /\ audio_file' = NoFile
    /\ par_files' = [i \in SegIdx |-> NoFile]
    /\ Return(t, success_result(t))
    /\ UNCHANGED <<serviceVars, queue, uploads, outputs>>

(* --------------- event loop: process_in_background resumes ------------- *)
\* faulty variant: the failure branch stores the message and leaves the status
terminal_update_keeps_status(job, result) ==
    IF result.success
    THEN [job EXCEPT
            !.status = "completed",
            !.sequential_time = Some(result.sequential_time),
            !.parallel_time = Some(result.parallel_time),
            !.speedup = Some(result.speedup),
            !.segments_processed = Some(result.segments_processed),
            !.cpu_cores_used = Some(result.cpu_cores_used),
            !.output_filename = Some(result.output_path),
            !.output_path = Some(result.output_path)]
    ELSE [job EXCEPT !.error = Some(result.error)]

\* faulty variant: the status is stored and the other keys are left for later
terminal_update_status_only(job, result) ==
    IF result.success
    THEN [job EXCEPT !.status = "completed"]
    ELSE [job EXCEPT !.status = "failed"]

\* lines 301-315: the job record after the run's result has been stored
terminal_update(job, result) ==
    IF result.success
    THEN [job EXCEPT
            !.status = "completed",
            !.sequential_time = Some(result.sequential_time),
            !.parallel_time = Some(result.parallel_time),
            !.speedup = Some(result.speedup),
            !.segments_processed = Some(result.segments_processed),
            !.cpu_cores_used = Some(result.cpu_cores_used),
            !.output_filename = Some(result.output_path),
            !.output_path = Some(result.output_path)]
    ELSE [job EXCEPT !.status = "failed", !.error = Some(result.error)]

\* The await of run_in_executor completes and the coroutine runs to its end
\* without another await. With the job gone, `jobs[job_id]` at line 299
\* raises KeyError, the handler at 320-324 indexes jobs[job_id] again and
\* the second KeyError leaves the coroutine.
process_in_background(t) ==
    /\ tasks[t].pc = "returned"
    /\ LET job_id == tasks[t].job_id IN
       IF jobs[job_id] = NoJob
       THEN /\ SetTask(t, [tasks[t] EXCEPT !.pc = "raised"])
            /\ UNCHANGED <<jobs, jobs_file>>
       ELSE /\ jobs' = [jobs EXCEPT
                          ![job_id] = terminal_update(@, tasks[t].result)]
            /\ jobs_file' = save_jobs(jobs')
            /\ SetTask(t, [tasks[t] EXCEPT !.pc = "done"])
    /\ UNCHANGED <<host, issued, queue, fileVars>>

(* ------------------------------ behaviours ----------------------------- *)
\* the actions of the event loop
Service ==
    \/ \E ext \in UploadExts, size_mb \in UploadSizes, video \in UploadVideos :
          upload_video(ext, size_mb, video)
    \/ \E job_id \in RequestJobIds, filter_type \in RequestFilters :
          start_processing(job_id, filter_type)
    \/ \E job_id \in RequestJobIds : get_status(job_id)
    \/ \E job_id \in RequestJobIds : download_video(job_id)
    \/ \E job_id \in RequestJobIds : cleanup_job(job_id)
    \/ \E t \in TaskIds : process_in_background(t)

\* the actions of the executor's worker process; `times` are the durations
\* process_parallel may measure
Pipeline(times) ==
    \/ executor_start
    \/ \E t \in TaskIds : extract_audio(t)
    \/ \E t \in TaskIds : split_video(t)
    \/ \E t \in TaskIds : worker_start(t)
    \/ \E t \in TaskIds, i \in 1..MaxFrames : worker_finish(t, i)
    \/ \E t \in TaskIds, i \in 1..MaxFrames : worker_raise(t, i)
    \/ \E t \in TaskIds, elapsed \in times : process_parallel_return(t, elapsed)
    \/ \E t \in TaskIds : merge_segments(t)
    \/ \E t \in TaskIds, k \in 0..MaxFrames : merge_raise(t, k)
    \/ \E t \in TaskIds : remux(t)
    \/ \E t \in TaskIds : remux_fails(t)
    \/ \E t \in TaskIds : estimate(t)
    \/ \E t \in TaskIds : cleanup_segments(t)

Next == Service \/ Pipeline(ServiceParTimes)

\* The service: any requests, with the uploads of UploadVideos on the hosts
\* of ServiceHosts.
Spec == Init /\ [][Next]_vars

\* The service process and its worker stop (shutdown, or a crash at any
\* point) and main.py is imported again: load_jobs() at line 68 reads
\* jobs.json, the new executor has no work item and the new event loop no
\* coroutine: every coroutine and work item of the old process that had not
\* ended is gone ("killed"). Files stay as they are; uuid4 does not repeat
\* an id.
Restart ==
    /\ jobs' = load_jobs(jobs_file)
    /\ tasks' = [t \in TaskIds |->
                   IF tasks[t].pc \in {"done", "raised", "killed"}
                   THEN tasks[t]
                   ELSE [NewTask(tasks[t].job_id, tasks[t].video_path,
                                 tasks[t].filter_type) EXCEPT !.pc = "killed"]]
    /\ queue' = <<>>
    /\ UNCHANGED <<host, jobs_file, fileVars, issued>>

NextRestart == Next \/ Restart

\* The service with restarts.
SpecRestart == Init /\ [][NextRestart]_vars

\* One pipeline run in full detail: a job was uploaded with any video of
\* Videos, on any host of Hosts, and POST /process was accepted for it.
InitPipeline ==
    /\ host \in Hosts
    /\ \E video \in Videos, filter_type \in {"grayscale", "blur"} :
          /\ uploads = [j \in JobIds |-> IF j = 1 THEN video ELSE NoFile]
          /\ jobs = [j \in JobIds |->
                IF j = 1
                THEN [NewJob(1) EXCEPT !.status = "processing",
                                       !.filter_type = Some(filter_type)]
                ELSE NoJob]
          /\ tasks = <<NewTask(1, 1, filter_type)>>
    /\ jobs_file = save_jobs(jobs)
    /\ outputs = [j \in JobIds |-> NoFile]
    /\ seg_files = [i \in SegIdx |-> NoFile]
    /\ par_files = [i \in SegIdx |-> NoFile]
    /\ audio_file = NoFile
    /\ queue = <<1>>
    /\ issued = 1

NextPipeline ==
    \/ Pipeline(ParTimes)
    \/ \E t \in TaskIds : process_in_background(t)

SpecPipeline == InitPipeline /\ [][NextPipeline]_vars

\* The service under fair scheduling: the executor's worker process keeps
\* running while it has work (each pipeline run returns), and the event loop
\* resumes every coroutine whose future is done. Clients may stop sending
\* requests at any time.
FairSpec ==
    /\ Spec
    /\ WF_vars(Pipeline(ServiceParTimes))
    /\ \A t \in 1..MaxRequests :
          WF_vars(t \in TaskIds /\ process_in_background(t))

(* ------------------------------ properties ----------------------------- *)
StatusOf(table, j) == IF table[j] = NoJob THEN "none" ELSE table[j].status

IsAscending(s) == \A i \in 1..(Len(s) - 1) : s[i] < s[i + 1]

FrameNumbers(frames) == [k \in 1..Len(frames) |-> frames[k].n]

\* C1: whatever order the segment-filter workers finish in, merge_segments
\* is handed the filtered segments in ascending original segment index and
\* the frames of the merged output are in source order.
C1_MergeInSegmentIndexOrder ==
    \A t \in TaskIds :
       /\ tasks[t].pc = "merge" =>
             /\ Len(tasks[t].par_paths) = Len(tasks[t].segment_paths)
             /\ \A i \in 1..Len(tasks[t].par_paths) :
                   tasks[t].par_paths[i] = tasks[t].segment_paths[i]
       /\ (tasks[t].pc = "remux" /\ outputs[tasks[t].job_id] # NoFile) =>
             IsAscending(FrameNumbers(outputs[tasks[t].job_id].frames))

\* C1 witness: a merge has run on three segments whose workers finished in
\* an order other than the segment order.
C1_Witness ==
    \E t \in TaskIds :
       /\ tasks[t].pc = "remux"
       /\ Len(tasks[t].finished) = 3
       /\ ~IsAscending(tasks[t].finished)
       /\ outputs[tasks[t].job_id] # NoFile
       /\ Len(outputs[tasks[t].job_id].frames) = 3

\* C2: once a job is completed or failed it never becomes processing or
\* uploaded again, and a completed job never becomes failed.
C2_TerminalStatusIsFinal ==
    [][\A j \in JobIds :
          (StatusOf(jobs, j) \in {"completed", "failed"}
             /\ StatusOf(jobs', j) # "none") =>
             /\ StatusOf(jobs', j) \notin {"processing", "uploaded"}
             /\ (StatusOf(jobs, j) = "completed" =>
                    StatusOf(jobs', j) # "failed")]_vars

\* C3: for a job that is processing, completed or failed, no step starts a
\* pipeline run for it, moves it to processing or changes its filter_type
\* (POST /process is rejected for it).
C3_ProcessOnlyFromUploaded ==
    [][\A j \in JobIds :
          (StatusOf(jobs, j) \in {"processing", "completed", "failed"}
             /\ StatusOf(jobs', j) # "none") =>
             /\ Cardinality(TasksOf(j))' = Cardinality(TasksOf(j))
             /\ jobs'[j].filter_type = jobs[j].filter_type
             /\ (StatusOf(jobs', j) = "processing" =>
                    StatusOf(jobs, j) = "processing")]_vars

\* C4: at most one pipeline run per job is pending or executing.
C4_OneRunPerJob ==
    \A j \in JobIds :
       Cardinality({t \in TasksOf(j) :
                       tasks[t].pc \in RunningPcs \cup {"queued"}}) <= 1

\* C5: system-wide at most one process_video_task is executing.
C5_OneRunAtATime == Cardinality(Running) <= 1

\* C5 witness: a run of one job is executing while an accepted run of
\* another job waits in the executor's queue.
C5_Witness ==
    \E t1, t2 \in TaskIds :
       /\ tasks[t1].pc \in RunningPcs
       /\ tasks[t2].pc = "queued"
       /\ tasks[t1].job_id # tasks[t2].job_id

ResultFields(job) ==
    {job.output_path, job.output_filename, job.sequential_time,
     job.parallel_time, job.speedup, job.segments_processed,
     job.cpu_cores_used}

\* C6: in every job record the result fields are present iff the status is
\* completed, and the error is present iff the status is failed.
C6_FieldsMatchStatus ==
    \A j \in JobIds :
       jobs[j] # NoJob =>
          /\ (Absent \notin ResultFields(jobs[j])) <=> (jobs[j].status = "completed")
          /\ (ResultFields(jobs[j]) # {Absent}) <=> (jobs[j].status = "completed")
          /\ (jobs[j].error # Absent) <=> (jobs[j].status = "failed")

\* C7: under fair scheduling every job accepted by /process ends completed
\* or failed unless it is deleted, every queued run is executed, and the
\* result of a faulted run is stored as status failed with its message.
C7_AcceptedJobsEnd ==
    /\ \A j \in JobIds :
          (StatusOf(jobs, j) = "processing")
             ~> (StatusOf(jobs, j) \in {"completed", "failed", "none"})
    /\ \A t \in 1..MaxRequests :
          (t \in TaskIds /\ tasks[t].pc = "queued")
             ~> (t \in TaskIds /\ tasks[t].pc \in {"done", "raised"})
    /\ [][\A t \in TaskIds :
            (/\ tasks[t].pc = "returned"
             /\ ~tasks[t].result.success
             /\ tasks'[t].pc # "returned"
             /\ jobs[tasks[t].job_id] # NoJob) =>
               /\ StatusOf(jobs', tasks[t].job_id) = "failed"
               /\ jobs'[tasks[t].job_id].error = Some(tasks[t].result.error)]_vars

\* C7 witness: a run faulted, its job is failed with the message, and a run
\* of another job that was queued behind it has been executed and stored.
C7_Witness ==
    \E t1, t2 \in TaskIds :
       /\ t1 < t2
       /\ tasks[t1].job_id # tasks[t2].job_id
       /\ tasks[t1].pc = "done"
       /\ ~tasks[t1].result.success
       /\ StatusOf(jobs, tasks[t1].job_id) = "failed"
       /\ jobs[tasks[t1].job_id].error = Some(tasks[t1].result.error)
       /\ tasks[t2].pc = "done"
       /\ StatusOf(jobs, tasks[t2].job_id) = "completed"

\* C8: the completion of a run whose job was deleted raises no unhandled
\* exception in process_in_background and writes no record for the job.
C8_DeletedJobCompletionIsSafe ==
    \A t \in TaskIds :
       /\ tasks[t].pc # "raised"
       /\ (tasks[t].pc = "done" /\ StatusOf(jobs, tasks[t].job_id) = "none") =>
             jobs_file[tasks[t].job_id] = NoJob

\* C9: merge_segments is not executed on a run one of whose segments the
\* filter worker could not decode.
C9_UndecodableSegmentFailsRun ==
    \A t \in TaskIds :
       tasks[t].pc \in {"remux", "estimate", "cleanup"} =>
          \A i \in 1..Len(tasks[t].segment_paths) :
             seg_files[tasks[t].segment_paths[i]] # NoFile

\* C10: when a run has ended in failure no output file of its job exists.
C10_NoOutputAfterFailure ==
    \A t \in TaskIds :
       (tasks[t].pc = "returned" /\ ~tasks[t].result.success) =>
          outputs[tasks[t].job_id] = NoFile

\* C11: a successful run reports audio_preserved = true iff its output file
\* carries the remuxed audio track; in particular audio_preserved is false
\* when audio was extracted and the remux step failed.
C11_AudioPreservedIffRemuxed ==
    \A t \in TaskIds :
       (tasks[t].pc = "returned" /\ tasks[t].result.success) =>
          (tasks[t].result.audio_preserved <=>
              /\ outputs[tasks[t].job_id] # NoFile
              /\ outputs[tasks[t].job_id].audio # Absent)

\* C12: on a host without ffmpeg / ffprobe, extract_audio returns False and
\* the run goes on to split_video, the remux step leaves the output as it
\* is, and a run that reaches its end returns success with audio_preserved
\* = false.
C12_MissingToolchainDegrades ==
    [][~host.ffmpeg =>
         \A t \in TaskIds :
            /\ (tasks[t].pc = "extract" /\ tasks'[t].pc # "extract") =>
                  /\ tasks'[t].pc = "split"
                  /\ ~tasks'[t].has_audio
                  /\ audio_file' = NoFile
            /\ (tasks[t].pc = "remux" /\ tasks'[t].pc # "remux") =>
                  /\ tasks'[t].pc = "estimate"
                  /\ outputs' = outputs
            /\ (tasks[t].pc = "cleanup" /\ tasks'[t].pc # "cleanup") =>
                  /\ tasks'[t].pc = "returned"
                  /\ tasks'[t].result.success
                  /\ ~tasks'[t].result.audio_preserved]_vars

\* C12 witness: without ffmpeg, a run on a video that has an AAC track has
\* returned success with a video-only output and audio_preserved = false.
C12_Witness ==
    \E t \in TaskIds :
       /\ ~host.ffmpeg
       /\ uploads[tasks[t].video_path] # NoFile
       /\ uploads[tasks[t].video_path].audio = "aac"
       /\ tasks[t].pc = "returned"
       /\ tasks[t].result.success
       /\ ~tasks[t].result.audio_preserved
       /\ outputs[tasks[t].job_id] # NoFile
       /\ Len(outputs[tasks[t].job_id].frames) = uploads[tasks[t].video_path].frames
       /\ outputs[tasks[t].job_id].audio = Absent

NoTransientFiles ==
    /\ \A i \in SegIdx : seg_files[i] = NoFile /\ par_files[i] = NoFile
    /\ audio_file = NoFile

\* C13: once a pipeline run has ended, in success or in failure, no segment
\* file, no par_processed_* file and no extracted audio file is left.
C13_NoTransientFilesAfterRun ==
    \A t \in TaskIds :
       tasks[t].pc \in {"returned", "done", "raised"} => NoTransientFiles

\* C14: the output of a successful run holds exactly the filtered source
\* frames T(f1)..T(fF), in source order.
C14_OutputIsFilteredSource ==
    \A t \in TaskIds :
       (tasks[t].pc = "returned" /\ tasks[t].result.success) =>
          LET source == uploads[tasks[t].video_path]
              out == outputs[tasks[t].job_id] IN
          /\ out # NoFile
          /\ Len(out.frames) = source.frames
          /\ \A k \in 1..source.frames :
                out.frames[k] = [job |-> tasks[t].video_path, n |-> k,
                                 filter |-> tasks[t].filter_type]

\* the least n with n * L >= F
CeilDiv(F, L) == CHOOSE n \in 0..F : n * L >= F /\ (n - 1) * L < F

\* C15: for a source of F >= 1 frames and L >= 1 frames per segment,
\* split_video leaves ceil(F / L) segment files; all but the last hold L
\* frames, the last holds F mod L frames (L when L divides F), F in total.
C15_SegmentCountAndSizes ==
    \A t \in TaskIds :
       (tasks[t].pc = "filter" /\ tasks[t].started = 0) =>
          LET F == uploads[tasks[t].video_path].frames
              L == frames_per_segment(uploads[tasks[t].video_path])
              n == Len(tasks[t].segment_paths)
              size(i) == IF seg_files[i] = NoFile THEN 0
                         ELSE Len(seg_files[i].frames) IN
          (F >= 1 /\ L >= 1) =>
             /\ n = CeilDiv(F, L)
             /\ \A i \in 1..n : tasks[t].segment_paths[i] = i - 1
             /\ \A i \in 0..(n - 1) : seg_files[i] # NoFile
             /\ \A i \in 0..(n - 2) : size(i) = L
             /\ size(n - 1) = IF F % L = 0 THEN L ELSE F % L
             /\ Len(Concat([i \in 1..n |-> read_frames(seg_files[i - 1])])) = F

\* C16: with measured parallel time P >= 0, W cores and S segments the
\* estimated sequential time is P * min(W, S) >= P, the speedup is >= 1 when
\* P > 0 and exactly 1 when P = 0; the rounded values that are reported keep
\* the order.
C16_SpeedupArithmetic ==
    \A t \in TaskIds :
       /\ tasks[t].pc = "cleanup" =>
             LET P == tasks[t].par_time
                 W == host.cpu_count
                 S == Len(tasks[t].segment_paths) IN
             /\ W >= 1 /\ S >= 1
             /\ tasks[t].estimated_seq_time = (IF W <= S THEN P * W ELSE P * S)
             /\ tasks[t].estimated_seq_time >= P
             /\ P > 0 => tasks[t].speedup >= 1000
             /\ P = 0 => tasks[t].speedup = 1000
       /\ (tasks[t].pc = "returned" /\ tasks[t].result.success) =>
             /\ tasks[t].result.sequential_time >= tasks[t].result.parallel_time
             /\ tasks[t].result.speedup >= 100

\* C16 witness: a run with fewer segments than cores and P > 0 has computed
\* its estimate.
C16_Witness ==
    \E t \in TaskIds :
       /\ tasks[t].pc = "cleanup"
       /\ tasks[t].par_time > 0
       /\ Len(tasks[t].segment_paths) < host.cpu_count
       /\ tasks[t].estimated_seq_time = tasks[t].par_time
       /\ tasks[t].speedup = 1000

\* C17: POST /process for an existing job with a filter name outside the
\* catalog is answered 400 and changes neither the job table, nor jobs.json,
\* nor the runs; an uploaded job keeps the record the upload stored, with
\* no filter_type and no run, and no record or run ever holds a filter name
\* outside the catalog.
C17_UnknownFilterRejected ==
    /\ [](\A j \in JobIds :
            jobs[j] # NoJob =>
               /\ \A f \in RequestFilters \ valid_filters :
                     process_response(j, f) = 400
               /\ jobs[j].status = "uploaded" =>
                     /\ jobs[j] = NewJob(j)
                     /\ load_jobs(jobs_file)[j] = NewJob(j)
                     /\ TasksOf(j) = {}
               /\ jobs[j].filter_type # Absent =>
                     jobs[j].filter_type[1] \in valid_filters)
    /\ [](\A t \in TaskIds : tasks[t].filter_type \in valid_filters)
    /\ [][\A j \in JobIds, f \in RequestFilters \ valid_filters :
            (jobs[j] # NoJob /\ start_processing(j, f)) =>
               UNCHANGED <<jobs, jobs_file, tasks, queue>>]_vars

\* C17 witness: an uploaded job for which a request with the filter name
\* "vignette" is answered 400, its record being the one the upload stored.
C17_Witness ==
    \E j \in JobIds :
       /\ jobs[j] # NoJob
       /\ jobs[j].status = "uploaded"
       /\ "vignette" \in RequestFilters \ valid_filters
       /\ process_response(j, "vignette") = 400
       /\ jobs[j] = NewJob(j)
       /\ load_jobs(jobs_file)[j] = NewJob(j)

\* C18: once a job has been processing, no step changes the filter_type in
\* its record.
C18_FilterTypeImmutable ==
    [][\A j \in JobIds :
          (StatusOf(jobs, j) \in {"processing", "completed", "failed"}
             /\ StatusOf(jobs', j) # "none") =>
             jobs'[j].filter_type = jobs[j].filter_type]_vars

\* C19: whenever GET /status answers for a job, a status completed comes
\* with every result field and a status failed with the error; a terminal
\* update is one step from the record before it to the complete record
\* after it.
C19_StatusReadsWholeRecord ==
    /\ [](\A j \in JobIds :
            LET r == status_response(j) IN
            r.code = 200 =>
               /\ r.status = "completed" =>
                     Absent \notin {r.sequential_time, r.parallel_time,
                                   r.speedup, r.segments_processed,
                                   r.cpu_cores_used, r.output_filename}
               /\ r.status = "failed" => r.error # Absent)
    /\ [][\A j \in JobIds :
            (/\ StatusOf(jobs, j) # "none"
             /\ StatusOf(jobs', j) \in {"completed", "failed"}
             /\ status_response(j)' # status_response(j)) =>
               \E t \in TasksOf(j) :
                  /\ tasks[t].pc = "returned"
                  /\ tasks'[t].pc = "done"
                  /\ jobs'[j] = terminal_update(jobs[j], tasks[t].result)]_vars

\* C19 witness: a successful run's result has been stored and GET /status
\* answers completed with all result fields.
C19_Witness ==
    \E t \in TaskIds :
       /\ tasks[t].pc = "done"
       /\ tasks[t].result.success
       /\ status_response(tasks[t].job_id).code = 200
       /\ status_response(tasks[t].job_id).status = "completed"
       /\ status_response(tasks[t].job_id).speedup # Absent
       /\ status_response(tasks[t].job_id).output_filename # Absent

\* C20: a job id that was deleted has no record in the table or in
\* jobs.json, status, download and process answer 404 for it, and neither
\* its uploaded file nor its output file exists; DELETE answers 404 for an
\* id that was never issued.
C20_DeletedJobLeavesNothing ==
    /\ cleanup_response(UnknownJob) = 404
    /\ \A j \in JobIds :
          (j <= issued /\ jobs[j] = NoJob) =>
             /\ jobs_file[j] = NoJob
             /\ status_response(j).code = 404
             /\ download_response(j) = 404
             /\ \A f \in RequestFilters : process_response(j, f) = 404
             /\ uploads[j] = NoFile
             /\ outputs[j] = NoFile

\* C21: GET /download answers 400 for a job that is not completed and 404
\* for a completed job whose output file does not exist, and a download
\* request changes neither the job table nor the runs.
C21_DownloadRejections ==
    /\ [](\A j \in JobIds :
            jobs[j] # NoJob =>
               /\ jobs[j].status # "completed" => download_response(j) = 400
               /\ (/\ jobs[j].status = "completed"
                   /\ \/ jobs[j].output_path = Absent
                      \/ outputs[jobs[j].output_path[1]] = NoFile) =>
                     download_response(j) = 404)
    /\ [][\A j \in RequestJobIds :
            (download_response(j) # 200 /\ download_video(j)) =>
               UNCHANGED <<jobs, jobs_file, tasks, queue>>]_vars

\* C21 witness: a completed job whose output file is not there, for which
\* GET /download answers 404.
C21_Witness ==
    \E j \in JobIds :
       /\ jobs[j] # NoJob
       /\ jobs[j].status = "completed"
       /\ jobs[j].output_path # Absent
       /\ outputs[jobs[j].output_path[1]] = NoFile
       /\ download_response(j) = 404

\* the runs of job j that are pending, executing or waiting to be stored
LiveTasksOf(j) ==
    {t \in TasksOf(j) : tasks[t].pc \notin {"done", "raised", "killed"}}

\* a step in which the service restarts while a coroutine had not ended
IsRestartStep ==
    \E t \in TaskIds : tasks[t].pc # "killed" /\ tasks'[t].pc = "killed"

\* C22: in every state (that is, after every mutation of the job table)
\* jobs.json is the dump of the table and loading it gives the table back;
\* a restart restores the table as it was.
C22_JobsFileEqualsTable ==
    /\ [](jobs_file = save_jobs(jobs) /\ load_jobs(jobs_file) = jobs)
    /\ [][IsRestartStep => jobs' = jobs]_vars

\* C22 witness: after a restart that killed a run, the table loaded from
\* jobs.json holds a completed job with its results and a processing job.
C22_Witness ==
    \E t \in TaskIds, j \in JobIds :
       /\ tasks[t].pc = "killed"
       /\ StatusOf(jobs, tasks[t].job_id) = "processing"
       /\ StatusOf(jobs, j) = "completed"
       /\ jobs[j].speedup # Absent
       /\ load_jobs(jobs_file)[j] = jobs[j]

\* C28: a restart leaves every record as it was and no run pending or
\* executing; a job that is processing with no run stays so, with no run,
\* until it is deleted or a POST /process creates a run for it.
C28_RestartEnqueuesNothing ==
    [][/\ IsRestartStep =>
            /\ jobs' = jobs
            /\ queue' = <<>>
            /\ \A j \in JobIds : LiveTasksOf(j)' = {}
       /\ \A j \in JobIds :
            (StatusOf(jobs, j) = "processing" /\ LiveTasksOf(j) = {}) =>
               \/ StatusOf(jobs', j) = "processing" /\ LiveTasksOf(j)' = {}
               \/ StatusOf(jobs', j) = "none"
               \/ Cardinality(TasksOf(j))' > Cardinality(TasksOf(j))]_vars

\* C28 witness: after a restart a job is processing and its only run is
\* gone.
C28_Witness ==
    \E j \in JobIds :
       /\ StatusOf(jobs, j) = "processing"
       /\ TasksOf(j) # {}
       /\ LiveTasksOf(j) = {}
       /\ \A t \in TasksOf(j) : tasks[t].pc = "killed"

\* the file the filter worker writes for a segment file
FilteredForm(seg, filter_type) ==
    IF seg = NoFile THEN NoFile
    ELSE [frames |-> [k \in 1..Len(seg.frames) |->
                        [seg.frames[k] EXCEPT !.filter = filter_type]]]

\* C23: when process_parallel has returned, every segment of split_video
\* was handed to a worker once and finished once, one result path per
\* segment is returned, the paths are distinct, and the file at position i
\* is the filtered form of segment i.
C23_EachSegmentFilteredOnce ==
    \A t \in TaskIds :
       tasks[t].pc = "merge" =>
          LET n == Len(tasks[t].segment_paths) IN
          /\ tasks[t].started = n
          /\ Len(tasks[t].finished) = n
          /\ Range(tasks[t].finished) = 1..n
          /\ Len(tasks[t].par_paths) = n
          /\ \A i, k \in 1..n :
                i # k => tasks[t].par_paths[i] # tasks[t].par_paths[k]
          /\ \A i \in 1..n :
                par_files[tasks[t].par_paths[i]] =
                   FilteredForm(seg_files[tasks[t].segment_paths[i]],
                                tasks[t].filter_type)

\* C23 witness: process_parallel has returned three filtered segments whose
\* workers finished out of order.
C23_Witness ==
    \E t \in TaskIds :
       /\ tasks[t].pc = "merge"
       /\ Len(tasks[t].segment_paths) = 3
       /\ ~IsAscending(tasks[t].finished)
       /\ \A i \in 1..3 :
             /\ par_files[tasks[t].par_paths[i]] # NoFile
             /\ Len(par_files[tasks[t].par_paths[i]].frames) = 1
             /\ par_files[tasks[t].par_paths[i]].frames[1].n = i

\* C24: merge_segments completes only when it was given at least one
\* segment and every segment it was given can be read.
C24_MergeFailsOnUnreadableSegment ==
    \A t \in TaskIds :
       tasks[t].pc = "remux" =>
          /\ tasks[t].par_paths # <<>>
          /\ \A i \in 1..Len(tasks[t].par_paths) :
                par_files[tasks[t].par_paths[i]] # NoFile

\* the step of process_video that follows each step when nothing is raised
NextStep ==
    [queued |-> "extract", extract |-> "split", split |-> "filter",
     filter |-> "merge", merge |-> "remux", remux |-> "estimate",
     estimate |-> "cleanup", cleanup |-> "returned", returned |-> "done"]

\* C25: a run moves through audio extraction, segmentation, filtering,
\* merge, remux, estimation and cleanup in this order, one step at a time
\* (or leaves the order by failing); the merge starts only when every
\* segment's filtering has returned; a successful result comes only out of
\* the cleanup; the job becomes completed only in the step that stores the
\* result of a run whose cleanup has finished.
C25_StepOrder ==
    [][/\ \A t \in TaskIds :
            tasks'[t].pc # tasks[t].pc =>
               /\ \/ tasks'[t].pc = NextStep[tasks[t].pc]
                  \/ /\ tasks[t].pc \in RunningPcs \cup {"queued"}
                     /\ tasks'[t].pc = "returned"
                     /\ ~tasks'[t].result.success
                  \/ tasks[t].pc = "returned" /\ tasks'[t].pc = "raised"
               /\ tasks'[t].pc = "merge" =>
                     /\ tasks[t].started = Len(tasks[t].segment_paths)
                     /\ Range(tasks[t].finished)
                           = 1..Len(tasks[t].segment_paths)
               /\ (tasks'[t].pc = "returned" /\ tasks'[t].result.success) =>
                     /\ tasks[t].pc = "cleanup"
                     /\ NoTransientFiles'
       /\ \A j \in JobIds :
            (StatusOf(jobs, j) # "completed"
               /\ StatusOf(jobs', j) = "completed") =>
               \E t \in TasksOf(j) :
                  /\ tasks[t].pc = "returned"
                  /\ tasks[t].result.success
                  /\ tasks'[t].pc = "done"]_vars

\* C25 witness: a run has gone through all the steps and its job is
\* completed.
C25_Witness ==
    \E t \in TaskIds :
       /\ tasks[t].pc = "done"
       /\ tasks[t].result.success
       /\ tasks[t].result.segments_processed = 3
       /\ StatusOf(jobs, tasks[t].job_id) = "completed"
       /\ outputs[tasks[t].job_id] # NoFile
       /\ NoTransientFiles

\* C26: the output file of a completed job holds frames filtered with the
\* filter named in the job's filter_type.
C26_RecordedFilterIsApplied ==
    \A j \in JobIds :
       (/\ StatusOf(jobs, j) = "completed"
        /\ jobs[j].output_path # Absent
        /\ outputs[jobs[j].output_path[1]] # NoFile) =>
          /\ jobs[j].filter_type # Absent
          /\ \A k \in 1..Len(outputs[jobs[j].output_path[1]].frames) :
                outputs[jobs[j].output_path[1]].frames[k].filter
                   = jobs[j].filter_type[1]

\* C27: the shared transient files are changed only by the one run that is
\* executing: whenever a segment file, a filtered segment or the audio file
\* is written or removed, the step is taken by a run in the worker process
\* and no other run is between its start and its return.
C27_TransientFilesOfOneRun ==
    [][transientVars' # transientVars =>
          \E t \in Running :
             /\ tasks'[t] # tasks[t]
             /\ \A u \in TaskIds \ {t} :
                   /\ tasks[u].pc \notin RunningPcs
                   /\ tasks'[u] = tasks[u]]_vars

\* C27 witness: a second run is executing on segment files at the shared
\* paths after a first run has returned, while the first run's result is
\* not yet stored.
C27_Witness ==
    \E t1, t2 \in TaskIds :
       /\ t1 # t2
       /\ tasks[t1].pc = "returned"
       /\ tasks[t2].pc = "filter"
       /\ seg_files[0] # NoFile
       /\ par_files[0] # NoFile

====
